---- MODULE Spec2Model ----
(***************************************************************************)
(* Model of bot.py: the registration conversation, the admin conversation, *)
(* the user registry, the settings store and the registration recorder of  *)
(* the event-registration Telegram bot.                                    *)
(*                                                                         *)
(* Text is modelled as a sequence of one-character strings, so that        *)
(* strip(), lower(), re.sub() and startswith() are computed character by   *)
(* character.  The module is ASCII only: the Cyrillic letters of the       *)
(* cancellation keyword are written with the Latin letters v i d m i n a   *)
(* (upper case V I D M I N A).                                             *)
(*                                                                         *)
(* Environment: every chat is a private chat (chat id = user id); updates  *)
(* are handled one at a time; replies to the sender and local file I/O     *)
(* succeed.  The two remote calls whose failure the code handles in place  *)
(* (bot.send_message inside the broadcast loop, gspread inside             *)
(* store_registration) may fail.  The process may be stopped and started   *)
(* again on the files it left (SpecSettings), or be started on a settings  *)
(* file that json.load rejects (SpecStartup).  SpecRace alone lets two     *)
(* updates be handled at once, to follow add_user step by step.            *)
(***************************************************************************)
EXTENDS Integers, Sequences, FiniteSets, TLC

VARIABLES
    event_date,      \* global event_date (bot.py:92)
    event_time,      \* global event_time
    event_location,  \* global event_location
    settings_file,   \* content of SETTINGS_FILE: a record of the three keys
    message_file,    \* content of MESSAGE_FILE
    users_file,      \* content of USERS_FILE: the sequence of its lines
    sheets,          \* the spreadsheet: worksheet title -> sequence of rows
    reg_conv,        \* reg_conv_handler.conversations: user -> state
    admin_conv,      \* admin_conv_handler.conversations: user -> state
    user_data,       \* context.user_data: user -> dict (keys present only)
    out,             \* messages sent while handling the last update
    attempted,       \* the send_message calls of the last update's broadcast
                     \* loop: whom to, and whether the call raised
    store_calls,     \* the store_registration calls of the last update: the
                     \* dict passed, and the gspread call that raised
    update,          \* the update handled last
    accepted,        \* history: fields accepted in the conversation in progress
    issued,          \* history: users that ever issued /start or /starts
    persisted,       \* history: the dict whose dump the settings file holds
    entered,         \* history: the values entered in the edit-event-info
                     \* conversation in progress, per user
    dropped,         \* history: the values entered in edit-event-info
                     \* conversations ended by /cancel and not entered since
    clock,           \* the value datetime.now() returned when last read
    adding,          \* add_user executions between their read and their
                     \* append: worker -> identifier and the lines read
    raced            \* history: identifiers for which two add_user
                     \* executions overlapped between read and append

vars == <<event_date, event_time, event_location, settings_file, message_file,
          users_file, sheets, reg_conv, admin_conv, user_data, out, attempted,
          store_calls, update, accepted, issued, persisted, entered, dropped,
          clock, adding, raced>>

-----------------------------------------------------------------------------
(* Characters and strings                                                  *)

Digits == {"0", "1", "2", "3", "4", "5", "6", "7", "8", "9"}

DigitChar == <<"0", "1", "2", "3", "4", "5", "6", "7", "8", "9">>

Whitespace == {" ", "\t", "\n"}

UpperChars == <<"V", "I", "D", "M", "N", "A", "O", "K">>

LowerChars == <<"v", "i", "d", "m", "n", "a", "o", "k">>

\* str.lower() on one character
LowerChar(c) ==
    IF \E i \in 1..Len(UpperChars) : UpperChars[i] = c
    THEN LowerChars[CHOOSE i \in 1..Len(UpperChars) : UpperChars[i] = c]
    ELSE c

\* str.lower()
Lower(s) == [i \in 1..Len(s) |-> LowerChar(s[i])]

RECURSIVE LStrip(_)
LStrip(s) ==
    IF s # <<>> /\ Head(s) \in Whitespace THEN LStrip(Tail(s)) ELSE s

RECURSIVE RStrip(_)
RStrip(s) ==
    IF s # <<>> /\ s[Len(s)] \in Whitespace
    THEN RStrip(SubSeq(s, 1, Len(s) - 1))
    ELSE s

\* str.strip()
Strip(s) == RStrip(LStrip(s))

\* str.startswith(prefix)
StartsWith(s, prefix) ==
    /\ Len(s) >= Len(prefix)
    /\ SubSeq(s, 1, Len(prefix)) = prefix

\* str.isdigit(): non-empty and every character a digit
IsDigitStr(s) == s # <<>> /\ \A i \in 1..Len(s) : s[i] \in Digits

\* the literal the handlers compare the lowered input with (bot.py:301)
CancelKeyword == <<"v", "i", "d", "m", "i", "n", "a">>

\* str(user_id) for a non-negative identifier
RECURSIVE Str(_)
Str(n) ==
    IF n < 10 THEN <<DigitChar[n + 1]>>
    ELSE Append(Str(n \div 10), DigitChar[(n % 10) + 1])

DigitValue(c) == (CHOOSE i \in 1..10 : DigitChar[i] = c) - 1

\* int(uid) for a string of digits
RECURSIVE IntOf(_)
IntOf(s) ==
    IF Len(s) = 1 THEN DigitValue(s[1])
    ELSE 10 * IntOf(SubSeq(s, 1, Len(s) - 1)) + DigitValue(s[Len(s)])

-----------------------------------------------------------------------------
(* Phone normalisation and validation, get_phone lines 321-326             *)

\* re.sub(r"[^\d+]", "", phone): keep the digits and the plus signs
RECURSIVE ReSubNonDigitPlus(_)
ReSubNonDigitPlus(s) ==
    IF s = <<>> THEN <<>>
    ELSE IF Head(s) \in Digits \cup {"+"}
         THEN <<Head(s)>> \o ReSubNonDigitPlus(Tail(s))
         ELSE ReSubNonDigitPlus(Tail(s))

\* (mutant) lines 322-323 left out: no '+' put in front
NormalizePhone_no_prefix(raw) == ReSubNonDigitPlus(raw)

\* lines 321-323
NormalizePhone(raw) ==
    LET cleaned == ReSubNonDigitPlus(raw)
    IN  IF StartsWith(cleaned, <<"+">>) THEN cleaned ELSE <<"+">> \o cleaned

\* (mutant) line 326 without the isdigit test
PhoneAccepted_no_isdigit(phone) ==
    /\ StartsWith(phone, <<"+", "3", "8", "0">>)
    /\ Len(phone) = 13

\* the condition of line 326, un-negated
PhoneAccepted(phone) ==
    /\ StartsWith(phone, <<"+", "3", "8", "0">>)
    /\ Len(phone) = 13
    /\ IsDigitStr(Tail(phone))

-----------------------------------------------------------------------------
(* Constants of the program                                                *)

\* ADMIN_IDS, line 55
ADMIN_IDS == {1124775269, 382701754}

\* default_settings, lines 67-71
default_settings ==
    [event_date |-> <<"1", "8", ".", "0", "2">>,
     event_time |-> <<"2", "0", ":", "0", "0">>,
     event_location |-> <<"C", "l", "u", "b", " ", "X", "Y", "Z">>]

\* default_message_text, lines 74-77 (the fixed text, as one token)
default_message_text == <<"default_message_text">>

\* conversation states, lines 226-227; NoConv: the key is absent (None)
NoConv == "none"

RegStates == {"NAME", "PHONE", "USERNAME", "SOURCE"}

AdminStates == {"ADMIN_DATE", "ADMIN_TIME", "ADMIN_LOCATION",
                "ADMIN_BROADCAST", "ADMIN_EDIT_MESSAGE"}

\* the header row of a new worksheet, line 172
HeaderRow == <<<<"Name">>, <<"Phone">>, <<"Telegram">>, <<"Source">>,
               <<"RegistrationTime">>>>

\* datetime.now().strftime(...), line 175, as one word: the time written in
\* a record is not followed
registration_time == <<"now">>

\* dict.get(key) of a missing key
None == <<"None">>

-----------------------------------------------------------------------------
(* Helpers on dicts, messages and files                                    *)

\* d[k] = v on a dict
Put(d, k, v) == [x \in (DOMAIN d) \cup {k} |-> IF x = k THEN v ELSE d[x]]

\* d.get(k)
Get(d, k) == IF k \in DOMAIN d THEN d[k] ELSE None

\* one outbound message: recipient, which message, its variable text, a number
Msg(to, kind, text, n) == [to |-> to, kind |-> kind, text |-> text, n |-> n]

Say(to, kind) == Msg(to, kind, <<>>, 0)

\* an entry of the history of accepted answers
Field(name, value) == [field |-> name, value |-> value]

\* x in list
InSeq(x, s) == \E i \in 1..Len(s) : s[i] = x

\* load_users, lines 139-148: the lines of the registry file
load_users == users_file

\* (mutant) lines 155-156 without the membership test of line 154
add_user_append_always(file, users, user_id) == Append(file, Str(user_id))

\* lines 154-156 of add_user on the lines read at line 153: the registry
\* file after them
add_user_append(file, users, user_id) ==
    IF ~InSeq(Str(user_id), users)
    THEN Append(file, Str(user_id))
    ELSE file

\* (mutant) add_user without the membership test of line 154
add_user_always(user_id) == Append(users_file, Str(user_id))

\* add_user, lines 151-159, run without interruption: the registry file
\* after add_user(user_id)
add_user(user_id) == add_user_append(users_file, load_users, user_id)

\* load_message_text, lines 120-128
load_message_text == message_file

-----------------------------------------------------------------------------
(* The settings file, lines 80-117.  The file is a JSON object: its        *)
(* members are modelled as a function from the keys present to the JSON    *)
(* string literals written for them, character by character.               *)

\* the file does not exist
NoFile == [exists |-> FALSE]

\* a file with the given content
File(content) == [exists |-> TRUE, members |-> content]

\* the characters json.dump writes after a backslash, and what they stand for
EscapeLetters == <<"\"", "\\", "n", "t">>

EscapedChars == <<"\"", "\\", "\n", "\t">>

\* (mutant) the encoder leaves the double quote as it is
JsonEscapeChar_quote_raw(c) ==
    IF c = "\"" THEN <<c>>
    ELSE IF \E i \in 1..Len(EscapedChars) : EscapedChars[i] = c
    THEN <<"\\", EscapeLetters[CHOOSE i \in 1..Len(EscapedChars) : EscapedChars[i] = c]>>
    ELSE <<c>>

\* json.dump(..., ensure_ascii=False) on one character of a string
JsonEscapeChar(c) ==
    IF \E i \in 1..Len(EscapedChars) : EscapedChars[i] = c
    THEN <<"\\", EscapeLetters[CHOOSE i \in 1..Len(EscapedChars) : EscapedChars[i] = c]>>
    ELSE <<c>>

RECURSIVE JsonEscape(_)
JsonEscape(str) ==
    IF str = <<>> THEN <<>>
    ELSE JsonEscapeChar(Head(str)) \o JsonEscape(Tail(str))

\* the string literal json.dump writes for a str
JsonString(str) == <<"\"">> \o JsonEscape(str) \o <<"\"">>

\* json.dump(settings, f, ensure_ascii=False, indent=4), line 114
json_dump(settings) == [k \in DOMAIN settings |-> JsonString(settings[k])]

\* what json.load accepts between the quotes of a string literal: no bare
\* quote, no bare control character, a known letter after each backslash
RECURSIVE WellFormedBody(_)
WellFormedBody(body) ==
    IF body = <<>> THEN TRUE
    ELSE IF Head(body) = "\\"
    THEN /\ Len(body) >= 2
         /\ \E i \in 1..Len(EscapeLetters) : EscapeLetters[i] = body[2]
         /\ WellFormedBody(SubSeq(body, 3, Len(body)))
    ELSE /\ Head(body) \notin {"\"", "\n", "\t"}
         /\ WellFormedBody(Tail(body))

WellFormedString(literal) ==
    /\ Len(literal) >= 2
    /\ literal[1] = "\"" /\ literal[Len(literal)] = "\""
    /\ WellFormedBody(SubSeq(literal, 2, Len(literal) - 1))

\* the str json.load reads from the inside of a well-formed literal
RECURSIVE JsonUnescape(_)
JsonUnescape(body) ==
    IF body = <<>> THEN <<>>
    ELSE IF Head(body) = "\\"
    THEN <<EscapedChars[CHOOSE i \in 1..Len(EscapeLetters) : EscapeLetters[i] = body[2]]>>
         \o JsonUnescape(SubSeq(body, 3, Len(body)))
    ELSE <<Head(body)>> \o JsonUnescape(Tail(body))

\* json.load(f), line 97, raises on a file it cannot parse
JsonParses(file) ==
    \A k \in DOMAIN file.members : WellFormedString(file.members[k])

\* json.load(f), line 97, on a file it can parse
json_load(file) ==
    [k \in DOMAIN file.members |->
        JsonUnescape(SubSeq(file.members[k], 2, Len(file.members[k]) - 1))]

\* ensure_local_file, lines 80-88
ensure_local_file(file, default_content) ==
    IF ~file.exists THEN File(default_content) ELSE file

\* a global name no assignment has bound yet
Unbound == <<"unbound">>

SettingsKeys == {"event_date", "event_time", "event_location"}

\* load_settings, lines 91-104, after ensure_local_file: the three globals of
\* a fresh process.  When json.load raises, the except clause of line 103
\* leaves them unbound.
load_settings(file) ==
    IF ~JsonParses(file) THEN [k \in SettingsKeys |-> Unbound]
    ELSE LET settings == json_load(file)
         IN  [k \in SettingsKeys |->
                 IF k \in DOMAIN settings THEN settings[k]
                 ELSE default_settings[k]]

\* save_settings, lines 106-117: the file written from the three globals
save_settings(d, t, l) ==
    File(json_dump([event_date |-> d, event_time |-> t, event_location |-> l]))

-----------------------------------------------------------------------------
(* get_weekday, lines 188-214, and get_invitation_message, lines 216-223.  *)
(* now is a reading of the wall clock: year, month, day and the time since *)
(* midnight in milliseconds, rounded up (0 at midnight only).              *)

\* str.split(sep)
RECURSIVE Split(_, _)
Split(str, sep) ==
    IF ~InSeq(sep, str) THEN <<str>>
    ELSE LET i == CHOOSE j \in 1..Len(str) :
                     str[j] = sep /\ \A k \in 1..(j - 1) : str[k] # sep
         IN  <<SubSeq(str, 1, i - 1)>> \o Split(SubSeq(str, i + 1, Len(str)), sep)

\* the digits of an int literal: blanks around it and one sign are allowed
IntDigits(str) ==
    LET t == Strip(str)
    IN  IF t # <<>> /\ t[1] \in {"+", "-"} THEN Tail(t) ELSE t

\* int(str) does not raise
IsIntLiteral(str) == IsDigitStr(IntDigits(str))

\* int(str)
int(str) ==
    IF Strip(str)[1] = "-" THEN 0 - IntOf(IntDigits(str))
    ELSE IntOf(IntDigits(str))

IsLeap(year) == year % 4 = 0 /\ (year % 100 # 0 \/ year % 400 = 0)

DaysInMonth(year, month) ==
    IF month = 2 THEN (IF IsLeap(year) THEN 29 ELSE 28)
    ELSE IF month \in {4, 6, 9, 11} THEN 30 ELSE 31

\* datetime.datetime(year, month, day) does not raise ValueError
IsDate(year, month, day) ==
    /\ year \in 1..9999
    /\ month \in 1..12
    /\ day \in 1..DaysInMonth(year, month)

RECURSIVE DaysBeforeMonth(_, _)
DaysBeforeMonth(year, month) ==
    IF month = 1 THEN 0
    ELSE DaysBeforeMonth(year, month - 1) + DaysInMonth(year, month - 1)

\* date.toordinal(): 1 for 1 January of year 1
toordinal(year, month, day) ==
    LET y == year - 1
    IN  y * 365 + (y \div 4) - (y \div 100) + (y \div 400)
        + DaysBeforeMonth(year, month) + day

\* date.weekday(): 0 for Monday
weekday(year, month, day) == (toordinal(year, month, day) + 6) % 7

\* the dict of lines 205-213, one word per name
weekdays ==
    <<"ponedilok", "vivtorok", "seredu", "chetver", "p'yatnytsyu", "subotu",
      "nedilyu">>

\* the text returned at lines 193 and 199
unknown_day == "nevidomyi den"

\* event_date_obj < now, line 200: event_date_obj is midnight of its day
Before(year, month, day, now) ==
    \/ year < now.year
    \/ year = now.year /\ month < now.month
    \/ year = now.year /\ month = now.month /\ day < now.day
    \/ year = now.year /\ month = now.month /\ day = now.day /\ 0 < now.ms

\* lines 200-204: the year of event_date_obj after the roll to the next year,
\* which is dropped when the next year has no such date (except: pass)
RollForward(year, month, day, now) ==
    IF Before(year, month, day, now) /\ IsDate(year + 1, month, day)
    THEN year + 1
    ELSE year

\* get_weekday, lines 188-214
get_weekday(date_str, now) ==
    LET parts == Split(date_str, ".")
    IN  IF Len(parts) # 2 \/ \E i \in 1..Len(parts) : ~IsIntLiteral(parts[i])
        THEN unknown_day
        ELSE LET day == int(parts[1])
                 month == int(parts[2])
                 year == now.year
             IN  IF ~IsDate(year, month, day) THEN unknown_day
                 ELSE weekdays[weekday(RollForward(year, month, day, now),
                                       month, day) + 1]

\* get_invitation_message, lines 216-223: the variable parts of the text, the
\* name of the weekday as one word
get_invitation_message(now) ==
    <<get_weekday(event_date, now)>> \o <<",">> \o event_date \o <<",">>
    \o event_time \o <<"\n">> \o event_location


-----------------------------------------------------------------------------
(* store_registration, lines 161-185                                       *)

\* the places where a gspread call can raise
FailPoints == {"open", "worksheet", "add_worksheet", "header", "record"}

\* (mutant) the worksheet named after the default date
sheet_name_default == default_settings.event_date

\* sheet_name, line 166
sheet_name == event_date

\* the row appended at lines 177-183
RegistrationRow(ud) ==
    <<Get(ud, "name"), Get(ud, "phone"), Get(ud, "username"),
      Get(ud, "source"), registration_time>>

\* the calls store_registration reaches for a worksheet title; with
\* event_date unbound, line 166 raises NameError after the spreadsheet is
\* opened
Reached(sh, title) ==
    IF title = Unbound THEN {"open"}
    ELSE IF title \in DOMAIN sh
    THEN {"open", "worksheet", "record"}
    ELSE FailPoints

\* what raises inside store_registration: the gspread call named by fail,
\* or else the read of an unbound event_date at line 166
Raised(title, fail) ==
    IF fail = "none" /\ title = Unbound THEN "sheet_name" ELSE fail

\* the spreadsheet after store_registration(ud) in which the call named by
\* fail raises ("none": no call raises); the exception is caught at line 184
StoreRegistration(sh, title, ud, fail) ==
    IF fail \in {"open", "worksheet"} \/ title = Unbound THEN sh
    ELSE
      LET found == title \in DOMAIN sh
          created == IF found THEN sh
                     ELSE IF fail = "add_worksheet" THEN sh
                     ELSE Put(sh, title, <<>>)
          headed == IF found \/ fail \in {"add_worksheet", "header"}
                    THEN created
                    ELSE Put(created, title, <<HeaderRow>>)
      IN  IF fail \in {"add_worksheet", "header", "record"}
          THEN headed
          ELSE Put(headed, title, Append(headed[title], RegistrationRow(ud)))

-----------------------------------------------------------------------------
(* What one update leaves behind: the messages sent, the broadcast         *)
(* deliveries attempted and the store_registration calls made              *)

Trace(o, a, c) == out' = o /\ attempted' = a /\ store_calls' = c

\* the updates of the gateway: a command, a button press with its data, a
\* text message that is no command, a contact card, anything else; with
\* each, the states the two conversation handlers held for its sender when
\* it arrived
Update(u, kind, name, text) ==
    [from |-> u, kind |-> kind, name |-> name, text |-> text,
     reg |-> reg_conv[u], adm |-> admin_conv[u]]

Command(u, name) == Update(u, "command", name, <<>>)

Button(u, data) == Update(u, "button", data, <<>>)

Text(u, text) == Update(u, "text", "", text)

Contact(u, phone_number) == Update(u, "contact", "", phone_number)

Replies(o) == Trace(o, <<>>, <<>>)

settings_vars ==
    <<event_date, event_time, event_location, settings_file, persisted>>

edit_vars == <<entered, dropped>>

race_vars == <<adding, raced>>

reg_vars == <<reg_conv, user_data, accepted>>

-----------------------------------------------------------------------------
(* User handlers                                                           *)

\* start_command, lines 230-235: CommandHandler("start")
start_command(u) ==
    /\ update' = Command(u, "start")
    /\ users_file' = add_user(u)
    /\ issued' = issued \cup {u}
    /\ Replies(<<Say(u, "greeting")>>)
    /\ UNCHANGED <<edit_vars, race_vars, clock>>
    /\ UNCHANGED <<settings_vars, message_file, sheets, reg_vars, admin_conv>>

\* the three globals get_invitation_message reads are bound; reading an
\* unbound one raises NameError, which leaves the handler
SettingsBound ==
    /\ event_date # Unbound
    /\ event_time # Unbound
    /\ event_location # Unbound

\* datetime.now() is read at line 194, after event_date was read at line 217
ClockRead(now) == IF event_date # Unbound THEN now ELSE clock

\* starts, lines 237-251: CommandHandler("starts").  When line 243 raises,
\* the messages of lines 240-241 were sent and the invitation is not.
starts(u, now) ==
    /\ update' = Command(u, "starts")
    /\ users_file' = add_user(u)
    /\ issued' = issued \cup {u}
    /\ clock' = ClockRead(now)
    /\ IF SettingsBound
       THEN Replies(<<Say(u, "keyboard_removed"), Say(u, "message_deleted"),
                      Msg(u, "invitation", get_invitation_message(now), 0)>>)
       ELSE Replies(<<Say(u, "keyboard_removed"), Say(u, "message_deleted")>>)
    /\ UNCHANGED <<edit_vars, race_vars>>
    /\ UNCHANGED <<settings_vars, message_file, sheets, reg_vars, admin_conv>>

\* invitation_response, lines 253-274: entry point of invitation_conv_handler,
\* whose state stays None because both branches return END
invitation_response(u, data) ==
    /\ data \in {"yes", "no"}
    /\ update' = Button(u, data)
    /\ IF data = "yes"
       THEN Replies(<<Msg(u, "pre_registration", load_message_text, 0)>>)
       ELSE Replies(<<Say(u, "declined")>>)
    /\ UNCHANGED <<edit_vars, race_vars, clock>>
    /\ UNCHANGED <<settings_vars, message_file, users_file, sheets, reg_vars,
                   admin_conv, issued>>

\* back_handler, lines 276-288: CallbackQueryHandler(pattern "^back$").  When
\* line 280 raises, the message is not edited.
back_handler(u, now) ==
    /\ update' = Button(u, "back")
    /\ clock' = ClockRead(now)
    /\ IF SettingsBound
       THEN Replies(<<Msg(u, "invitation", get_invitation_message(now), 0)>>)
       ELSE Replies(<<>>)
    /\ UNCHANGED <<edit_vars, race_vars>>
    /\ UNCHANGED <<settings_vars, message_file, users_file, sheets, reg_vars,
                   admin_conv, issued>>

\* registration_start, lines 290-297: entry point of reg_conv_handler, tried
\* only while the user's conversation state is None (no allow_reentry)
registration_start(u) ==
    /\ reg_conv[u] = NoConv
    /\ update' = Button(u, "register")
    /\ reg_conv' = [reg_conv EXCEPT ![u] = "NAME"]
    /\ accepted' = [accepted EXCEPT ![u] = <<>>]
    /\ Replies(<<Say(u, "ask_name")>>)
    /\ UNCHANGED <<edit_vars, race_vars, clock>>
    /\ UNCHANGED <<settings_vars, message_file, users_file, sheets, user_data,
                   admin_conv, issued>>

\* cancel, lines 378-380, as the state change of the handler that returns it
Cancelled(u) ==
    /\ reg_conv' = [reg_conv EXCEPT ![u] = NoConv]
    /\ accepted' = [accepted EXCEPT ![u] = <<>>]
    /\ Replies(<<Say(u, "registration_cancelled")>>)
    /\ UNCHANGED user_data

\* (mutant) the comparison without lower()
IsCancelText_case_sensitive(text) == Strip(text) = CancelKeyword

\* the test each get_* handler makes before anything else (lines 301, 318,
\* 337, 354)
IsCancelText(text) == Lower(Strip(text)) = CancelKeyword

\* (mutant) get_name returns the state after the next
after_get_name_skips == "USERNAME"

\* the state get_name returns, line 311
after_get_name == "PHONE"

\* get_name, lines 299-311: state NAME, a text message that is no command
get_name(u, text) ==
    /\ reg_conv[u] = "NAME"
    /\ update' = Text(u, text)
    /\ IF IsCancelText(text)
       THEN Cancelled(u)
       ELSE /\ user_data' = [user_data EXCEPT ![u] = Put(@, "name", text)]
            /\ reg_conv' = [reg_conv EXCEPT ![u] = after_get_name]
            /\ accepted' = [accepted EXCEPT ![u] = Append(@, Field("name", text))]
            /\ Replies(<<Say(u, "ask_phone")>>)
    /\ UNCHANGED <<settings_vars, message_file, users_file, sheets, admin_conv,
                   issued>>
    /\ UNCHANGED <<edit_vars, race_vars, clock>>

\* the part of get_phone after the cancel test, lines 321-333
PhoneStep(u, raw) ==
    LET phone == NormalizePhone(raw)
    IN  IF ~PhoneAccepted(phone)
        THEN /\ Replies(<<Say(u, "phone_reprompt")>>)
             /\ UNCHANGED <<reg_conv, user_data, accepted>>
        ELSE /\ user_data' = [user_data EXCEPT ![u] = Put(@, "phone", phone)]
             /\ reg_conv' = [reg_conv EXCEPT ![u] = "USERNAME"]
             /\ accepted' = [accepted EXCEPT ![u] = Append(@, Field("phone", phone))]
             /\ Replies(<<Say(u, "ask_username")>>)

\* get_phone, lines 313-333: state PHONE, a contact card or a text message
\* that is no command.  msg.contact is None for a text message.
get_phone(u, msg) ==
    /\ reg_conv[u] = "PHONE"
    /\ update' = (IF msg.contact # None THEN Contact(u, msg.contact)
                  ELSE Text(u, msg.text))
    /\ IF msg.contact # None
       THEN PhoneStep(u, msg.contact)
       ELSE IF IsCancelText(msg.text)
            THEN Cancelled(u)
            ELSE PhoneStep(u, Strip(msg.text))
    /\ UNCHANGED <<settings_vars, message_file, users_file, sheets, admin_conv,
                   issued>>
    /\ UNCHANGED <<edit_vars, race_vars, clock>>

\* (mutant) line 339 testing for an '@' anywhere
HandleAccepted_anywhere(username) ==
    \E i \in 1..Len(username) : username[i] = "@"

\* the test of line 339, un-negated
HandleAccepted(username) == StartsWith(username, <<"@">>)

\* get_username, lines 335-350: state USERNAME
get_username(u, text) ==
    /\ reg_conv[u] = "USERNAME"
    /\ update' = Text(u, text)
    /\ LET username == Strip(text)
       IN  IF IsCancelText(text)
           THEN Cancelled(u)
           ELSE IF ~HandleAccepted(username)
           THEN /\ Replies(<<Say(u, "username_reprompt")>>)
                /\ UNCHANGED <<reg_conv, user_data, accepted>>
           ELSE /\ user_data' = [user_data EXCEPT ![u] = Put(@, "username", username)]
                /\ reg_conv' = [reg_conv EXCEPT ![u] = "SOURCE"]
                /\ accepted' =
                     [accepted EXCEPT ![u] = Append(@, Field("username", username))]
                /\ Replies(<<Say(u, "ask_source")>>)
    /\ UNCHANGED <<settings_vars, message_file, users_file, sheets, admin_conv,
                   issued>>
    /\ UNCHANGED <<edit_vars, race_vars, clock>>

\* (mutant) store_registration without its try/except: what a gspread call
\* raises leaves the function
Propagates_uncaught(fail) == fail # "none"

\* the exception raised by the call named by fail leaves store_registration:
\* never, the except clause of lines 184-185 catches every Exception
Propagates(fail) == FALSE

\* get_source, lines 352-376: state SOURCE; fail names the gspread call that
\* raises inside store_registration ("none": no call raises).  An exception
\* that left store_registration would leave get_source at line 359.
get_source(u, text, fail) ==
    /\ reg_conv[u] = "SOURCE"
    /\ update' = Text(u, text)
    /\ LET source_text == Strip(text)
           data == Put(user_data[u], "source", source_text)
       IN  IF IsCancelText(text)
           THEN /\ fail = "none"
                /\ Cancelled(u)
                /\ UNCHANGED sheets
           ELSE /\ fail \in {"none"} \cup Reached(sheets, sheet_name)
                /\ user_data' = [user_data EXCEPT ![u] = data]
                /\ sheets' = StoreRegistration(sheets, sheet_name, data, fail)
                /\ LET raised == Raised(sheet_name, fail)
                   IN  IF Propagates(raised)
                       THEN /\ UNCHANGED <<reg_conv, accepted>>
                            /\ Trace(<<>>, <<>>,
                                     <<[data |-> data, raised |-> raised]>>)
                       ELSE /\ reg_conv' = [reg_conv EXCEPT ![u] = NoConv]
                            /\ accepted' = [accepted EXCEPT ![u] = <<>>]
                            /\ Trace(<<Say(u, "registration_thanks"),
                                       Say(u, "social_links")>>,
                                     <<>>, <<[data |-> data, raised |-> raised]>>)
    /\ UNCHANGED <<settings_vars, message_file, users_file, admin_conv, issued>>
    /\ UNCHANGED <<edit_vars, race_vars, clock>>

\* cancel, lines 378-380, as the fallback CommandHandler("cancel") of
\* reg_conv_handler (line 497): any registration state
cancel(u) ==
    /\ reg_conv[u] # NoConv
    /\ update' = Command(u, "cancel")
    /\ Cancelled(u)
    /\ UNCHANGED <<settings_vars, message_file, users_file, sheets, admin_conv,
                   issued>>
    /\ UNCHANGED <<edit_vars, race_vars, clock>>

-----------------------------------------------------------------------------
(* Admin handlers.  reg_conv_handler is registered before admin_conv_handler*)
(* (lines 499, 512) in the same group, so a text message or a /cancel of a  *)
(* user with a registration conversation in progress never reaches          *)
(* admin_conv_handler.                                                      *)

\* (mutant) admin without the test of line 385
admin_unchecked(u) ==
    /\ update' = Command(u, "admin")
    /\ Replies(<<Say(u, "admin_menu")>>)
    /\ UNCHANGED <<settings_vars, message_file, users_file, sheets, reg_vars,
                   admin_conv, issued>>
    /\ UNCHANGED <<edit_vars, race_vars, clock>>

\* admin, lines 383-394: CommandHandler("admin")
admin(u) ==
    /\ update' = Command(u, "admin")
    /\ IF u \notin ADMIN_IDS
       THEN Replies(<<Say(u, "access_denied")>>)
       ELSE Replies(<<Say(u, "admin_menu")>>)
    /\ UNCHANGED <<settings_vars, message_file, users_file, sheets, reg_vars,
                   admin_conv, issued>>
    /\ UNCHANGED <<edit_vars, race_vars, clock>>

AdminButtons == {"admin_change", "admin_broadcast", "admin_edit_message"}

\* admin_callback, lines 396-408: entry point of admin_conv_handler
admin_callback(u, data) ==
    /\ data \in AdminButtons
    /\ admin_conv[u] = NoConv
    /\ update' = Button(u, data)
    /\ CASE data = "admin_change" ->
              /\ admin_conv' = [admin_conv EXCEPT ![u] = "ADMIN_DATE"]
              /\ Replies(<<Say(u, "ask_date")>>)
         [] data = "admin_broadcast" ->
              /\ admin_conv' = [admin_conv EXCEPT ![u] = "ADMIN_BROADCAST"]
              /\ Replies(<<Say(u, "ask_broadcast")>>)
         [] data = "admin_edit_message" ->
              /\ admin_conv' = [admin_conv EXCEPT ![u] = "ADMIN_EDIT_MESSAGE"]
              /\ Replies(<<Msg(u, "ask_message", load_message_text, 0)>>)
    /\ entered' = [entered EXCEPT ![u] = <<>>]
    /\ UNCHANGED <<dropped, race_vars, clock>>
    /\ UNCHANGED <<settings_vars, message_file, users_file, sheets, reg_vars,
                   issued>>

\* a text message reaches the state handlers of admin_conv_handler
AdminText(u, state) == reg_conv[u] = NoConv /\ admin_conv[u] = state

\* admin_set_date, lines 410-414
admin_set_date(u, text) ==
    /\ AdminText(u, "ADMIN_DATE")
    /\ update' = Text(u, text)
    /\ event_date' = text
    /\ admin_conv' = [admin_conv EXCEPT ![u] = "ADMIN_TIME"]
    /\ Replies(<<Say(u, "ask_time")>>)
    /\ entered' = [entered EXCEPT ![u] = Append(@, Field("event_date", text))]
    /\ dropped' = dropped \ {Field("event_date", text)}
    /\ UNCHANGED <<event_time, event_location, settings_file, persisted,
                   message_file, users_file, sheets, reg_vars, issued,
                   race_vars, clock>>

\* admin_set_time, lines 416-420
admin_set_time(u, text) ==
    /\ AdminText(u, "ADMIN_TIME")
    /\ update' = Text(u, text)
    /\ event_time' = text
    /\ admin_conv' = [admin_conv EXCEPT ![u] = "ADMIN_LOCATION"]
    /\ Replies(<<Say(u, "ask_location")>>)
    /\ entered' = [entered EXCEPT ![u] = Append(@, Field("event_time", text))]
    /\ dropped' = dropped \ {Field("event_time", text)}
    /\ UNCHANGED <<event_date, event_location, settings_file, persisted,
                   message_file, users_file, sheets, reg_vars, issued,
                   race_vars, clock>>

\* admin_set_location, lines 422-427
admin_set_location(u, text) ==
    /\ AdminText(u, "ADMIN_LOCATION")
    /\ update' = Text(u, text)
    /\ event_location' = text
    /\ settings_file' = save_settings(event_date, event_time, text)
    /\ persisted' = [event_date |-> event_date, event_time |-> event_time,
                     event_location |-> text]
    /\ admin_conv' = [admin_conv EXCEPT ![u] = NoConv]
    /\ Replies(<<Say(u, "settings_updated")>>)
    /\ entered' = [entered EXCEPT ![u] = <<>>]
    /\ UNCHANGED <<event_date, event_time, message_file, users_file, sheets,
                   reg_vars, issued, dropped, race_vars, clock>>

\* (mutant) the loop left at the first delivery that raises
RECURSIVE Delivered_aborts(_, _, _, _)
Delivered_aborts(users, text, failed, from) ==
    IF from > Len(users) \/ from \in failed THEN <<>>
    ELSE <<Msg(IntOf(users[from]), "broadcast", text, 0)>>
         \o Delivered_aborts(users, text, failed, from + 1)

\* the loop of lines 434-439 over users[from..]: the messages delivered, the
\* deliveries in failed raise and are skipped by the except clause
RECURSIVE Delivered(_, _, _, _)
Delivered(users, text, failed, from) ==
    IF from > Len(users) THEN <<>>
    ELSE (IF from \in failed THEN <<>>
          ELSE <<Msg(IntOf(users[from]), "broadcast", text, 0)>>)
         \o Delivered(users, text, failed, from + 1)

\* the send_message calls the loop makes, in order
Attempts(users, failed) ==
    [i \in 1..Len(users) |-> [to |-> IntOf(users[i]), raised |-> i \in failed]]

\* the report of lines 440-442
BroadcastReport(u, users, count) ==
    IF users # <<>>
    THEN Msg(u, "broadcast_done", <<>>, count)
    ELSE Say(u, "no_users")

\* admin_broadcast_message, lines 429-443; failed: the positions of the
\* registry whose send_message raises
admin_broadcast_message(u, text, failed) ==
    /\ AdminText(u, "ADMIN_BROADCAST")
    /\ update' = Text(u, text)
    /\ failed \subseteq 1..Len(load_users)
    /\ LET users == load_users
           sent == Delivered(users, text, failed, 1)
       IN  Trace(Append(sent, BroadcastReport(u, users, Len(sent))),
                 Attempts(users, failed), <<>>)
    /\ admin_conv' = [admin_conv EXCEPT ![u] = NoConv]
    /\ UNCHANGED <<settings_vars, message_file, users_file, sheets, reg_vars,
                   issued>>
    /\ UNCHANGED <<edit_vars, race_vars, clock>>

\* admin_set_message, lines 445-449
admin_set_message(u, text) ==
    /\ AdminText(u, "ADMIN_EDIT_MESSAGE")
    /\ update' = Text(u, text)
    /\ message_file' = text
    /\ admin_conv' = [admin_conv EXCEPT ![u] = NoConv]
    /\ Replies(<<Say(u, "message_updated")>>)
    /\ UNCHANGED <<settings_vars, users_file, sheets, reg_vars, issued>>
    /\ UNCHANGED <<edit_vars, race_vars, clock>>

\* admin_cancel, lines 451-453: the fallback CommandHandler("cancel") of
\* admin_conv_handler, reached only when reg_conv_handler declines /cancel
admin_cancel(u) ==
    /\ reg_conv[u] = NoConv
    /\ admin_conv[u] # NoConv
    /\ update' = Command(u, "cancel")
    /\ admin_conv' = [admin_conv EXCEPT ![u] = NoConv]
    /\ Replies(<<Say(u, "admin_cancelled")>>)
    /\ entered' = [entered EXCEPT ![u] = <<>>]
    /\ dropped' = dropped \cup {entered[u][i] : i \in 1..Len(entered[u])}
    /\ UNCHANGED <<settings_vars, message_file, users_file, sheets, reg_vars,
                   issued, race_vars, clock>>

\* an update no handler accepts (an unknown command, a sticker, a text message
\* outside every conversation): the dispatcher drops it
unhandled(u) ==
    /\ update' = Update(u, "other", "", <<>>)
    /\ Replies(<<>>)
    /\ UNCHANGED <<settings_vars, message_file, users_file, sheets, reg_vars,
                   admin_conv, issued>>
    /\ UNCHANGED <<edit_vars, race_vars, clock>>

-----------------------------------------------------------------------------
(* start_command when two updates are handled at once: each worker runs    *)
(* add_user in two steps, the read of line 153 and the test and append of  *)
(* lines 154-156, and the other worker may run between them.               *)

\* the executions of add_user that may be under way at once
Workers == {1, 2}

\* no add_user execution under way
Idle == [busy |-> FALSE]

\* worker w takes /start of u and runs add_user up to line 153
add_user_reads(w, u) ==
    /\ ~adding[w].busy
    /\ adding' = [adding EXCEPT
                    ![w] = [busy |-> TRUE, user_id |-> u, users |-> load_users]]
    /\ raced' = IF \E v \in DOMAIN adding :
                      v # w /\ adding[v].busy /\ adding[v].user_id = u
                THEN raced \cup {u}
                ELSE raced
    /\ UNCHANGED <<settings_vars, message_file, users_file, sheets, reg_vars,
                   admin_conv, issued, edit_vars, clock, out, attempted,
                   store_calls, update>>

\* worker w runs lines 154-156 and the rest of start_command
add_user_appends(w) ==
    /\ adding[w].busy
    /\ users_file' =
          add_user_append(users_file, adding[w].users, adding[w].user_id)
    /\ adding' = [adding EXCEPT ![w] = Idle]
    /\ update' = Command(adding[w].user_id, "start")
    /\ issued' = issued \cup {adding[w].user_id}
    /\ Replies(<<Say(adding[w].user_id, "greeting")>>)
    /\ UNCHANGED <<settings_vars, message_file, sheets, reg_vars, admin_conv,
                   edit_vars, clock, raced>>

-----------------------------------------------------------------------------
(* The updates the environment sends.  The texts are samples: those sent   *)
(* in answer to each prompt are listed per prompt, and every list holds    *)
(* the cancellation keyword.                                               *)

\* a user outside ADMIN_IDS
Guests == {700700700}

Guest == CHOOSE u \in Guests : TRUE

\* one of the administrators
Admin == CHOOSE u \in ADMIN_IDS : TRUE

Users == ADMIN_IDS \cup Guests

\* no update completes a registration once the spreadsheet holds this many
\* registration rows
MaxRecords == 2

\* the same bound for the specification of the registration form
MaxFormRecords == 1

\* the keyword as the keyboard button sends it (line 306)
TxtCancelExact == <<"V", "i", "d", "m", "i", "n", "a">>

TxtCancelLower == <<"v", "i", "d", "m", "i", "n", "a">>

TxtCancelUpper == <<"V", "I", "D", "M", "I", "N", "A">>

\* mixed case, padded with blanks
TxtCancelMixed == <<" ", "V", "i", "D", "m", "I", "n", "a", " ">>

TxtName == <<"O", "l", "e", "n", "a">>

TxtNamePadded == <<" ", "O", "l", "e", "n", "a", " ", "K", " ">>

TxtHandle == <<"@", "o", "l", "e", "n", "a", "_", "k">>

TxtHandlePadded == <<" ", " ", "@", "o", "k", " ">>

TxtAt == <<"@">>

TxtNoAt == <<"o", "l", "e", "n", "a", "_", "k">>

TxtAtInside == <<"o", "k", "@", "k">>

TxtSource == <<"i", "n", "s", "t", "a", "g", "r", "a", "m">>

TxtDate == <<"0", "1", ".", "0", "3">>

TxtTime == <<"2", "1", ":", "3", "0">>

TxtLocation == <<"B", "a", "r", " ", "7">>

TxtNews == <<"d", "o", "o", "r", "s", " ", "a", "t", " ", "7">>

\* the nine subscriber digits of two numbers
SubscriberA == <<"5", "0", "1", "2", "3", "4", "5", "6", "7">>

SubscriberB == <<"6", "7", "9", "8", "7", "0", "0", "1", "2">>

\* valid numbers in varied writing
PhonePlain ==
    <<"+", "3", "8", "0", "5", "0", "1", "2", "3", "4", "5", "6", "7">>

PhoneNoPlus == <<"3", "8", "0", "6", "7", "9", "8", "7", "0", "0", "1", "2">>

PhoneParens ==
    <<"+", "3", "8", " ", "(", "0", "5", "0", ")", " ", "1", "2", "3", "-",
      "4", "5", "-", "6", "7">>

PhoneSpaces ==
    <<" ", "3", "8", "0", " ", "6", "7", " ", "9", "8", "7", " ", "0", "0",
      " ", "1", "2", " ">>

PhoneDashes ==
    <<"(", "+", "3", "8", "0", ")", "-", "5", "0", "-", "1", "2", "3", "-",
      "4", "5", "-", "6", "7">>

\* a valid number after a label
PhoneLabelled ==
    <<"t", "e", "l", ":", " ", "+", "3", "8", "0", "6", "7", "9", "8", "7",
      "0", "0", "1", "2">>

\* inputs that are no valid number
PhoneLocal == <<"0", "5", "0", "1", "2", "3", "4", "5", "6", "7">>

PhoneShort ==
    <<"+", "3", "8", "0", " ", "5", "0", " ", "1", "2", "3", " ", "4", "5",
      " ", "6">>

PhoneLong ==
    <<"+", "3", "8", "0", "5", "0", "1", "2", "3", "4", "5", "6", "7", "8">>

PhoneForeign ==
    <<"+", "4", "8", " ", "5", "0", "1", " ", "2", "3", "4", " ", "5", "6",
      "7", " ", "8">>

\* thirteen characters once cleaned, a plus among them
PhonePlusInside ==
    <<"+", "3", "8", "0", " ", "5", "0", " ", "1", "2", "+", " ", "4", "5",
      " ", "6", "7">>

PhonePlusTwice ==
    <<"+", "+", "3", "8", "0", "5", "0", "1", "2", "3", "4", "5", "6", "7">>

PhoneLetters == <<"c", "a", "l", "l", " ", "m", "e">>

CancelTexts == {TxtCancelExact, TxtCancelLower, TxtCancelUpper, TxtCancelMixed}

ValidPhoneTexts == {PhonePlain, PhoneNoPlus, PhoneParens, PhoneSpaces,
                    PhoneDashes, PhoneLabelled}

InvalidPhoneTexts == {PhoneLocal, PhoneShort, PhoneLong, PhoneForeign,
                      PhonePlusInside, PhonePlusTwice, PhoneLetters}

\* the rich samples, for the specification of the registration form
FormNames == {TxtName} \cup CancelTexts

FormPhones == ValidPhoneTexts \cup InvalidPhoneTexts \cup {TxtName} \cup CancelTexts

\* phone_number of a contact card: any of the above, the keyword included
FormContacts == ValidPhoneTexts \cup InvalidPhoneTexts \cup {TxtCancelLower}

FormHandles == {TxtHandle, TxtHandlePadded, TxtAt, TxtNoAt, TxtAtInside,
                PhonePlain} \cup CancelTexts

FormSources == {TxtSource} \cup CancelTexts

TextMsg(t) == [contact |-> None, text |-> t]

ContactMsg(p) == [contact |-> p, text |-> None]

\* the registration rows of a worksheet
Records(rows) == SelectSeq(rows, LAMBDA r : r # HeaderRow)

\* the number of registration rows in a spreadsheet
RECURSIVE RecordCount(_)
RecordCount(sh) ==
    IF DOMAIN sh = {} THEN 0
    ELSE LET t == CHOOSE x \in DOMAIN sh : TRUE
         IN  Len(Records(sh[t]))
             + RecordCount([x \in (DOMAIN sh) \ {t} |-> sh[x]])

\* a reading of the wall clock, some days before the default event date
Noon == [year |-> 2025, month |-> 2, day |-> 10, ms |-> 43200000]

Clock == {Noon}

\* the settings file main() finds on the disk: none, or the dump of a dict
NoDisk == [exists |-> FALSE]

Disk(settings) == [exists |-> TRUE, settings |-> settings]

FileOn(disk) == IF disk.exists THEN File(json_dump(disk.settings)) ELSE NoFile

\* the update slot before any update, and after a start of the process
Startup == [from |-> 0, kind |-> "startup", name |-> "", text |-> <<>>,
            reg |-> NoConv, adm |-> NoConv]

\* the state after main() has run lines 459-461 with the given settings file
\* on the disk, an empty registry and the default message text
Boot(disk) ==
    /\ settings_file = ensure_local_file(FileOn(disk), json_dump(default_settings))
    /\ event_date = load_settings(settings_file).event_date
    /\ event_time = load_settings(settings_file).event_time
    /\ event_location = load_settings(settings_file).event_location
    /\ persisted = (IF disk.exists THEN disk.settings ELSE default_settings)
    /\ message_file = default_message_text
    /\ users_file = <<>>
    /\ sheets = <<>>
    /\ reg_conv = [u \in Users |-> NoConv]
    /\ admin_conv = [u \in Users |-> NoConv]
    /\ user_data = [u \in Users |-> <<>>]
    /\ out = <<>>
    /\ attempted = <<>>
    /\ store_calls = <<>>
    /\ update = Startup
    /\ accepted = [u \in Users |-> <<>>]
    /\ issued = {}
    /\ entered = [u \in Users |-> <<>>]
    /\ dropped = {}
    /\ clock = Noon
    /\ adding = [w \in Workers |-> Idle]
    /\ raced = {}

\* the state after main() has run lines 459-461 on an empty data directory
Init == Boot(NoDisk)

\* main, lines 458-464, run by a new process on the files the last one left:
\* the settings are loaded, the conversations and user_data of the last
\* process are gone (the Updater is given no persistence)
main ==
    /\ settings_file' =
          ensure_local_file(settings_file, json_dump(default_settings))
    /\ event_date' = load_settings(settings_file').event_date
    /\ event_time' = load_settings(settings_file').event_time
    /\ event_location' = load_settings(settings_file').event_location
    /\ persisted' = (IF settings_file.exists THEN persisted ELSE default_settings)
    /\ reg_conv' = [u \in Users |-> NoConv]
    /\ admin_conv' = [u \in Users |-> NoConv]
    /\ user_data' = [u \in Users |-> <<>>]
    /\ accepted' = [u \in Users |-> <<>>]
    /\ entered' = [u \in Users |-> <<>>]
    /\ adding' = [w \in Workers |-> Idle]
    /\ update' = Startup
    /\ Replies(<<>>)
    /\ UNCHANGED <<message_file, users_file, sheets, issued, dropped, clock,
                   raced>>

\* the commands and buttons outside the two conversations
UserUpdates(u) ==
    \/ start_command(u)
    \/ \E now \in Clock : starts(u, now)
    \/ \E d \in {"yes", "no"} : invitation_response(u, d)
    \/ \E now \in Clock : back_handler(u, now)
    \/ unhandled(u)

\* the registration form filled in by the guest, with the rich samples
FormUpdates(u) ==
    \/ registration_start(u)
    \/ \E t \in FormNames : get_name(u, t)
    \/ \E t \in FormPhones : get_phone(u, TextMsg(t))
    \/ \E p \in FormContacts : get_phone(u, ContactMsg(p))
    \/ \E t \in FormHandles : get_username(u, t)
    \/ \E t \in FormSources, f \in {"none"} \cup FailPoints :
          (RecordCount(sheets) < MaxFormRecords \/ IsCancelText(t)) /\ get_source(u, t, f)
    \/ cancel(u)

NextForm == UserUpdates(Guest) \/ FormUpdates(Guest)

SpecForm == Init /\ [][NextForm]_vars

\* the small samples, for the specifications that combine the form with
\* the admin conversation
Names == {TxtName, TxtCancelMixed}

Phones == {PhoneParens, PhoneLocal, TxtCancelUpper}

Contacts == {PhoneNoPlus, PhoneLong}

Handles == {TxtHandle, TxtNoAt, TxtCancelLower}

Sources == {TxtSource, TxtCancelExact}

Dates == {TxtDate}

Times == {TxtTime}

Locations == {TxtLocation}

\* the registration form with the small samples
RegUpdates(u) ==
    \/ registration_start(u)
    \/ \E t \in Names : get_name(u, t)
    \/ \E t \in Phones : get_phone(u, TextMsg(t))
    \/ \E p \in Contacts : get_phone(u, ContactMsg(p))
    \/ \E t \in Handles : get_username(u, t)
    \/ \E t \in Sources, f \in {"none"} \cup FailPoints :
          (RecordCount(sheets) < MaxRecords \/ IsCancelText(t)) /\ get_source(u, t, f)
    \/ cancel(u)

\* the edit-event-info conversation
EditUpdates(u) ==
    \/ admin(u)
    \/ admin_callback(u, "admin_change")
    \/ \E t \in Dates : admin_set_date(u, t)
    \/ \E t \in Times : admin_set_time(u, t)
    \/ \E t \in Locations : admin_set_location(u, t)
    \/ admin_cancel(u)

\* the guest registers while the administrators edit the event
Next ==
    \/ RegUpdates(Guest)
    \/ admin(Guest)
    \/ unhandled(Guest)
    \/ EditUpdates(Admin)

Spec == Init /\ [][Next]_vars

Broadcasts == {TxtNews}

Templates == {TxtNews}

\* the whole admin conversation
AdminUpdates(u) ==
    \/ admin(u)
    \/ \E d \in AdminButtons : admin_callback(u, d)
    \/ \E t \in Dates : admin_set_date(u, t)
    \/ \E t \in Times : admin_set_time(u, t)
    \/ \E t \in Locations : admin_set_location(u, t)
    \/ \E t \in Broadcasts, F \in SUBSET (1..Len(users_file)) :
          admin_broadcast_message(u, t, F)
    \/ \E t \in Templates : admin_set_message(u, t)
    \/ admin_cancel(u)

\* every user issues commands and presses buttons; an administrator and the
\* guest send the updates of the admin conversation
NextAdmin ==
    \/ \E u \in Users : UserUpdates(u)
    \/ \E u \in {Admin, Guest} : AdminUpdates(u)

SpecAdmin == Init /\ [][NextAdmin]_vars

\* the other administrator
OtherAdmin == CHOOSE u \in ADMIN_IDS : u # Admin

TxtDateLeap == <<"2", "9", ".", "0", "2">>

TxtTimeLate == <<"2", "3", ":", "5", "9">>

\* a location with a quote, a backslash and a line break in it
TxtLocationQuoted ==
    <<"B", "a", "r", " ", "\"", "7", "\"", " ", "\\", "\n", "2">>

EditDates == {TxtDate, TxtDateLeap}

EditTimes == {TxtTime, TxtTimeLate}

EditLocations == {TxtLocation, TxtLocationQuoted}

\* a settings dict an earlier process or an operator left on the disk
LeftSettings ==
    [event_date |-> <<"3", "1", ".", "1", "2">>,
     event_time |-> <<"1", "9", ":", "0", "0">>,
     event_location |-> <<"\\", "\"", "H", "a", "l", "l", "\"", "\t", "A">>]

\* the files main() may find: none, or the dump of some of the keys
Disks ==
    {NoDisk} \cup {Disk([k \in K |-> LeftSettings[k]]) : K \in SUBSET SettingsKeys}

\* the process is not running; the data directory holds the given settings
\* file, the dump of the given dict if it is the dump of any
StoppedOn(file, settings) ==
    /\ settings_file = file
    /\ persisted = settings
    /\ event_date = Unbound
    /\ event_time = Unbound
    /\ event_location = Unbound
    /\ message_file = default_message_text
    /\ users_file = <<>>
    /\ sheets = <<>>
    /\ reg_conv = [u \in Users |-> NoConv]
    /\ admin_conv = [u \in Users |-> NoConv]
    /\ user_data = [u \in Users |-> <<>>]
    /\ out = <<>>
    /\ attempted = <<>>
    /\ store_calls = <<>>
    /\ update = [Startup EXCEPT !.kind = "stopped"]
    /\ accepted = [u \in Users |-> <<>>]
    /\ issued = {}
    /\ entered = [u \in Users |-> <<>>]
    /\ dropped = {}
    /\ clock = Noon
    /\ adding = [w \in Workers |-> Idle]
    /\ raced = {}

Stopped(disk) ==
    StoppedOn(FileOn(disk), IF disk.exists THEN disk.settings ELSE <<>>)

InitSettings == \E disk \in Disks : Stopped(disk)

\* updates are dispatched while the process runs
Running == update.kind # "stopped"

\* the edit-event-info conversation of one administrator
SettingsUpdates(u) ==
    \/ admin_callback(u, "admin_change")
    \/ \E t \in EditDates : admin_set_date(u, t)
    \/ \E t \in EditTimes : admin_set_time(u, t)
    \/ \E t \in EditLocations : admin_set_location(u, t)
    \/ admin_cancel(u)

\* the process is started and restarted; both administrators edit the event
NextSettings ==
    \/ main
    \/ Running /\ \E u \in ADMIN_IDS : SettingsUpdates(u)

SpecSettings == InitSettings /\ [][NextSettings]_vars

\* a settings file whose string literal for key k lost its closing quote:
\* json.load raises on it
CutShort(file, k) ==
    [file EXCEPT !.members[k] = SubSeq(@, 1, Len(@) - 1)]

\* the files main() may find that json.load rejects
BrokenFiles ==
    {CutShort(FileOn(Disk(LeftSettings)), k) : k \in SettingsKeys}

\* the process is not running; the settings file is absent, a dump, or broken
InitStartup ==
    \/ InitSettings
    \/ \E file \in BrokenFiles : StoppedOn(file, <<>>)

\* the registration form filled in with one answer to each question
OneForm(u) ==
    \/ registration_start(u)
    \/ get_name(u, TxtName)
    \/ get_phone(u, TextMsg(PhoneParens))
    \/ get_username(u, TxtHandle)
    \/ \E f \in {"none"} \cup FailPoints :
          RecordCount(sheets) < MaxFormRecords /\ get_source(u, TxtSource, f)

\* the process is started and restarted; the guest asks for the invitation
\* and registers, an administrator edits the event
NextStartup ==
    \/ main
    \/ Running /\ \E now \in Clock : starts(Guest, now)
    \/ Running /\ \E now \in Clock : back_handler(Guest, now)
    \/ Running /\ OneForm(Guest)
    \/ Running /\ EditUpdates(Admin)

SpecStartup == InitStartup /\ [][NextStartup]_vars

\* one administrator fills in the registration form and uses the admin
\* conversation in the same chat
NextBoth == RegUpdates(Admin) \/ AdminUpdates(Admin)

SpecBoth == Init /\ [][NextBoth]_vars

\* what an administrator may send as the event date
DateToday == <<"1", "0", ".", "0", "2">>

DateYesterday == <<"0", "9", ".", "0", "2">>

DateTomorrow == <<"1", "1", ".", "0", "2">>

DateFeb30 == <<"3", "0", ".", "0", "2">>

DateApr31 == <<"3", "1", ".", "0", "4">>

DateNewYear == <<"0", "1", ".", "0", "1">>

DateLastDay == <<"3", "1", ".", "1", "2">>

DateShort == <<"1", ".", "3">>

DateBlanks == <<" ", "7", ".", " ", "0", "3", " ">>

DateMonth13 == <<"0", "7", ".", "1", "3">>

DateDay0 == <<"0", "0", ".", "0", "5">>

DateNegative == <<"-", "1", ".", "0", "5">>

DateWords == <<"a", "b", ".", "c", "d">>

DateNoDot == <<"1", "8", "0", "2">>

DateThreeParts == <<"1", "8", ".", "0", "2", ".">>

DateSlash == <<"1", "8", "/", "0", "2">>

WeekdayDates ==
    {TxtDate, TxtDateLeap, DateToday, DateYesterday, DateTomorrow, DateFeb30, DateApr31,
     DateNewYear, DateLastDay, DateShort, DateBlanks,
     DateMonth13, DateDay0, DateNegative, DateWords,
     DateNoDot, DateThreeParts, DateSlash}

\* readings of the wall clock: around the default event date, at midnight,
\* around the leap day of a leap year, in the years before and after it, and
\* on the last day of a year
WeekdayClock ==
    {Noon,
     [Noon EXCEPT !.ms = 0],
     [Noon EXCEPT !.day = 18, !.ms = 1],
     [year |-> 2024, month |-> 2, day |-> 28, ms |-> 43200000],
     [year |-> 2024, month |-> 2, day |-> 29, ms |-> 0],
     [year |-> 2024, month |-> 2, day |-> 29, ms |-> 43200000],
     [year |-> 2024, month |-> 3, day |-> 1, ms |-> 0],
     [year |-> 2023, month |-> 3, day |-> 1, ms |-> 43200000],
     [year |-> 2023, month |-> 12, day |-> 31, ms |-> 86399999],
     [year |-> 2100, month |-> 3, day |-> 1, ms |-> 43200000]}

\* an administrator sets the event date; the guest asks for the invitation
\* at different times
NextWeekday ==
    \/ \E now \in WeekdayClock : starts(Guest, now)
    \/ \E now \in WeekdayClock : back_handler(Guest, now)
    \/ admin_callback(Admin, "admin_change")
    \/ \E t \in WeekdayDates : admin_set_date(Admin, t)
    \/ \E t \in Times : admin_set_time(Admin, t)
    \/ \E t \in Locations : admin_set_location(Admin, t)

SpecWeekday == Init /\ [][NextWeekday]_vars

\* /start from every user, two updates handled at once
NextRace ==
    \/ \E w \in Workers, u \in Users : add_user_reads(w, u)
    \/ \E w \in Workers : add_user_appends(w)

SpecRace == Init /\ [][NextRace]_vars

-----------------------------------------------------------------------------
(* What the claims speak of, stated without the handlers' own tests        *)

\* '+380' followed by exactly 9 digits
UkrainianMobile(p) ==
    /\ Len(p) = 13
    /\ SubSeq(p, 1, 4) = <<"+", "3", "8", "0">>
    /\ \A i \in 5..13 : p[i] \in Digits

\* every character but the digits and '+' dropped, '+' put in front if absent
Normalized(raw) ==
    LET kept == SelectSeq(raw, LAMBDA c : c \in Digits \cup {"+"})
    IN  IF kept # <<>> /\ kept[1] = "+" THEN kept ELSE <<"+">> \o kept

\* a character in either letter case
EitherCase(c) ==
    {c} \cup {UpperChars[i] : i \in {j \in 1..Len(LowerChars) : LowerChars[j] = c}}

\* the cancellation keyword in any letter case, blanks around it ignored
KeywordAnyCase(text) ==
    LET word == Strip(text)
    IN  /\ Len(word) = Len(CancelKeyword)
        /\ \A i \in 1..Len(word) : word[i] \in EitherCase(CancelKeyword[i])

\* the update handled last was this text message of user u
HandledText(u, text) ==
    update.from = u /\ update.kind = "text" /\ update.text = text

\* the update now handled is a text message of user u
TextFrom(u) == update'.from = u /\ update'.kind = "text"

\* the update now handled is the cancellation keyword or /cancel, from u
CancellationFrom(u) ==
    /\ update'.from = u
    /\ \/ update'.kind = "text" /\ KeywordAnyCase(update'.text)
       \/ update'.kind = "command" /\ update'.name = "cancel"

CancelReply(u) == <<Say(u, "registration_cancelled")>>

\* the order of the registration states: the fields accepted before each
FieldsBefore(state) ==
    CASE state = "NAME" -> <<>>
      [] state = "PHONE" -> <<"name">>
      [] state = "USERNAME" -> <<"name", "phone">>
      [] state = "SOURCE" -> <<"name", "phone", "username">>
      [] OTHER -> <<>>

FieldNames(history) == [i \in 1..Len(history) |-> history[i].field]

\* one step forward in NAME -> PHONE -> USERNAME -> SOURCE -> END
OneStepForward ==
    {<<NoConv, "NAME">>, <<"NAME", "PHONE">>, <<"PHONE", "USERNAME">>,
     <<"USERNAME", "SOURCE">>, <<"SOURCE", NoConv>>}

-----------------------------------------------------------------------------
\* C1: a registration conversation moves NAME -> PHONE -> USERNAME -> SOURCE
\* -> END one step at a time, or stays, or ends on a cancellation; in every
\* state the fields accepted so far are exactly those before the current
\* state, in order; and store_registration is called only while a text is
\* handled in SOURCE, after a name, a valid phone and a handle were accepted
\* in that order in that conversation.
C1_RegistrationOrder ==
    [][\A u \in Users :
         /\ reg_conv'[u] # reg_conv[u] =>
              \/ <<reg_conv[u], reg_conv'[u]>> \in OneStepForward
                    /\ ~CancellationFrom(u)
              \/ reg_conv'[u] = NoConv /\ CancellationFrom(u)
                    /\ out' = CancelReply(u)
         /\ FieldNames(accepted'[u]) = FieldsBefore(reg_conv'[u])
         /\ (store_calls' # <<>> /\ update'.from = u) =>
              /\ reg_conv[u] = "SOURCE" /\ TextFrom(u)
              /\ FieldNames(accepted[u]) = <<"name", "phone", "username">>
              /\ UkrainianMobile(accepted[u][2].value)
              /\ StartsWith(accepted[u][3].value, <<"@">>)
      ]_vars

\* a conversation was completed: the form was stored and the state is END
C1_Witness ==
    /\ store_calls # <<>>
    /\ reg_conv[Guest] = NoConv
    /\ "source" \in DOMAIN user_data[Guest]

\* C2: in PHONE, an input (text other than the cancellation keyword, or a
\* contact card) whose normalized form is not '+380' and 9 digits leaves the
\* state PHONE and the stored fields as they are and sends the re-prompt;
\* PHONE is left only with a valid phone stored or by a cancellation.
C2_InvalidPhoneStays ==
    [][\A u \in Users : reg_conv[u] = "PHONE" =>
         /\ ( /\ update'.from = u
              /\ update'.kind \in {"text", "contact"}
              /\ ~(update'.kind = "text" /\ KeywordAnyCase(update'.text))
              /\ ~UkrainianMobile(Normalized(update'.text)) ) =>
              /\ reg_conv'[u] = "PHONE"
              /\ user_data'[u] = user_data[u]
              /\ out' = <<Say(u, "phone_reprompt")>>
         /\ reg_conv'[u] # "PHONE" =>
              \/ /\ reg_conv'[u] = "USERNAME"
                 /\ UkrainianMobile(Normalized(update'.text))
                 /\ user_data'[u].phone = Normalized(update'.text)
              \/ /\ reg_conv'[u] = NoConv
                 /\ CancellationFrom(u)
      ]_vars

\* an input with thirteen characters once cleaned was rejected
C2_Witness ==
    /\ HandledText(Guest, PhonePlusInside)
    /\ update.reg = "PHONE"
    /\ reg_conv[Guest] = "PHONE"
    /\ out = <<Say(Guest, "phone_reprompt")>>
    /\ "phone" \notin DOMAIN user_data[Guest]

\* the characters a number is written with besides its digits and '+'
Separators == {" ", "-", "(", ")"}

Unseparated(raw) == SelectSeq(raw, LAMBDA c : c \notin Separators)

\* a valid number written with separators and a leading '380' or '+380'
WrittenValid(raw) ==
    LET d == Unseparated(raw)
    IN  \/ UkrainianMobile(d)
        \/ UkrainianMobile(<<"+">> \o d)

\* its nine subscriber digits, in the order written
SubscriberDigits(raw) ==
    LET d == Unseparated(raw) IN SubSeq(d, Len(d) - 8, Len(d))

\* C3: in PHONE, a valid number written with any mix of spaces, dashes and
\* parentheses and a leading '380' or '+380' is stored as '+380' and its nine
\* subscriber digits in order (13 characters), and the state becomes USERNAME.
C3_ValidPhoneStored ==
    [][\A u \in Users :
         ( /\ reg_conv[u] = "PHONE"
           /\ update'.from = u
           /\ update'.kind \in {"text", "contact"}
           /\ WrittenValid(update'.text) ) =>
           /\ reg_conv'[u] = "USERNAME"
           /\ "phone" \in DOMAIN user_data'[u]
           /\ user_data'[u].phone =
                 <<"+", "3", "8", "0">> \o SubscriberDigits(update'.text)
           /\ Len(user_data'[u].phone) = 13
      ]_vars

\* a number written with blanks and no '+' was stored
C3_Witness ==
    /\ HandledText(Guest, PhoneSpaces)
    /\ update.reg = "PHONE"
    /\ reg_conv[Guest] = "USERNAME"
    /\ user_data[Guest].phone = <<"+", "3", "8", "0">> \o SubscriberB

\* C4 as stated: in USERNAME every text that does not start with '@' leaves
\* the state and the stored fields as they are, and every text that starts
\* with '@' stores a handle and moves to SOURCE.
C4_AsStated ==
    [][\A u \in Users : (reg_conv[u] = "USERNAME" /\ TextFrom(u)) =>
         IF StartsWith(update'.text, <<"@">>)
         THEN /\ reg_conv'[u] = "SOURCE"
              /\ "username" \in DOMAIN user_data'[u]
         ELSE /\ reg_conv'[u] = "USERNAME"
              /\ user_data'[u] = user_data[u]
      ]_vars

\* C4, amended: in USERNAME a text that is not the cancellation keyword is
\* judged with the blanks around it removed: if it then does not start with
\* '@' the state stays USERNAME, nothing is stored and the re-prompt is sent;
\* if it starts with '@' (also '@' alone) it is stored as the handle and the
\* state becomes SOURCE.
C4_HandleRule ==
    [][\A u \in Users :
         (reg_conv[u] = "USERNAME" /\ TextFrom(u)
             /\ ~KeywordAnyCase(update'.text)) =>
           LET word == Strip(update'.text)
           IN  IF word # <<>> /\ word[1] = "@"
               THEN /\ reg_conv'[u] = "SOURCE"
                    /\ "username" \in DOMAIN user_data'[u]
                    /\ user_data'[u].username = word
               ELSE /\ reg_conv'[u] = "USERNAME"
                    /\ user_data'[u] = user_data[u]
                    /\ out' = <<Say(u, "username_reprompt")>>
      ]_vars

\* '@' alone was accepted as the handle
C4_Witness ==
    /\ HandledText(Guest, TxtAt)
    /\ update.reg = "USERNAME"
    /\ reg_conv[Guest] = "SOURCE"
    /\ user_data[Guest].username = <<"@">>

\* C5: in every registration state the cancellation keyword in any letter
\* case, or /cancel, ends the conversation with the cancellation reply, makes
\* no store_registration call and leaves the spreadsheet as it is.
C5_CancelEnds ==
    [][\A u \in Users : (reg_conv[u] \in RegStates /\ CancellationFrom(u)) =>
         /\ reg_conv'[u] = NoConv
         /\ out' = CancelReply(u)
         /\ store_calls' = <<>>
         /\ sheets' = sheets
      ]_vars

\* the keyword in mixed case ended a conversation that had reached SOURCE
C5_Witness ==
    /\ HandledText(Guest, TxtCancelMixed)
    /\ update.reg = "SOURCE"
    /\ reg_conv[Guest] = NoConv
    /\ out = CancelReply(Guest)
    /\ sheets = <<>>

\* a source answer is accepted in SOURCE: the conversation of u completes
Completes(u) ==
    reg_conv[u] = "SOURCE" /\ TextFrom(u) /\ ~KeywordAnyCase(update'.text)

\* the record of the conversation of u that completes
RecordOf(u) ==
    <<accepted[u][1].value, accepted[u][2].value, accepted[u][3].value,
      Strip(update'.text), registration_time>>

\* exactly one record is appended to the partition title, which is created
\* with the header row before the record if it did not exist
AppendedOne(before, after, title, record) ==
    /\ DOMAIN after = (DOMAIN before) \cup {title}
    /\ \A t \in (DOMAIN before) \ {title} : after[t] = before[t]
    /\ after[title] = IF title \in DOMAIN before
                      THEN Append(before[title], record)
                      ELSE <<HeaderRow, record>>

\* no record is appended; at most the partition title is created
AppendedNone(before, after, title) ==
    /\ DOMAIN after \subseteq (DOMAIN before) \cup {title}
    /\ \A t \in DOMAIN before : after[t] = before[t]
    /\ RecordCount(after) = RecordCount(before)

\* C6 as stated: every conversation that completes appends exactly one
\* record, with its name, phone, handle and source, to the partition named
\* after the event date, created with the header row first if it was absent.
C6_AsStated ==
    [][\A u \in Users : Completes(u) =>
         AppendedOne(sheets, sheets', event_date, RecordOf(u))
      ]_vars

\* C6, amended: every conversation that completes calls store_registration
\* once with its name, phone, handle and source; if nothing raises inside
\* store_registration, exactly one record is appended to the partition named
\* after the event date, created with the header row first if it was absent;
\* if a call to the tabular store or the read of an unassigned event date
\* raises there, no record is appended.  So k completions without a failure
\* give k records.
C6_OneRecordPerCompletion ==
    [][\A u \in Users : Completes(u) =>
         /\ reg_conv'[u] = NoConv
         /\ Len(store_calls') = 1
         /\ RegistrationRow(store_calls'[1].data) = RecordOf(u)
         /\ IF store_calls'[1].raised = "none"
            THEN AppendedOne(sheets, sheets', event_date, RecordOf(u))
            ELSE AppendedNone(sheets, sheets', event_date)
      ]_vars

\* two conversations were completed, one before and one after the event
\* date was changed: each partition holds its header and one record
C6_Witness ==
    /\ update.reg = "SOURCE"
    /\ store_calls # <<>>
    /\ DOMAIN sheets = {default_settings.event_date, TxtDate}
    /\ \A t \in DOMAIN sheets :
          /\ Len(sheets[t]) = 2
          /\ sheets[t][1] = HeaderRow
          /\ sheets[t][2][1] = TxtName

\* the identifiers registered, as numbers
Registered == {IntOf(users_file[i]) : i \in 1..Len(users_file)}

TimesRegistered(u) ==
    Cardinality({i \in 1..Len(users_file) : IntOf(users_file[i]) = u})

\* C7: the registry holds every identifier that ever issued /start or
\* /starts exactly once, and no step removes or moves an entry: the registry
\* before a step is a prefix of the registry after it.
C7_RegistryOnce ==
    /\ [](/\ \A u \in issued : TimesRegistered(u) = 1
          /\ Registered = issued)
    /\ [][/\ Len(users_file') >= Len(users_file)
          /\ SubSeq(users_file', 1, Len(users_file)) = users_file
         ]_vars

\* /start from the identifier that was registered first, two others after it
C7_Witness ==
    /\ update.kind = "command" /\ update.name = "start"
    /\ Len(users_file) = 3
    /\ IntOf(users_file[1]) = update.from
    /\ issued = Users

\* the update now handled is the text of a broadcast, from u
BroadcastFrom(u) ==
    TextFrom(u) /\ reg_conv[u] = NoConv /\ admin_conv[u] = "ADMIN_BROADCAST"

Failures(calls) == Cardinality({i \in 1..Len(calls) : calls[i].raised})

\* the messages delivered by the calls that did not raise, in order
DeliveredBy(calls, text) ==
    LET ok == SelectSeq(calls, LAMBDA c : ~c.raised)
    IN  [i \in 1..Len(ok) |-> Msg(ok[i].to, "broadcast", text, 0)]

\* delivery is attempted to every entry of the registry, in registry order
AttemptsAll(calls, registry) ==
    /\ Len(calls) = Len(registry)
    /\ \A i \in 1..Len(calls) : calls[i].to = IntOf(registry[i])

\* C8 as stated: a broadcast over N entries attempts all N in order, reports
\* the count N - M and ends the admin conversation.
C8_AsStated ==
    [][\A u \in Users : BroadcastFrom(u) =>
         /\ AttemptsAll(attempted', users_file)
         /\ out' = Append(DeliveredBy(attempted', update'.text),
                          Msg(u, "broadcast_done", <<>>,
                              Len(users_file) - Failures(attempted')))
         /\ admin_conv'[u] = NoConv
      ]_vars

\* C8, amended: a broadcast over N >= 1 entries attempts all N in registry
\* order whichever deliveries fail, delivers to those that do not fail,
\* reports the count N - M and ends the admin conversation; over an empty
\* registry it attempts nothing, reports that there are no users, and ends
\* the admin conversation.
C8_BroadcastAll ==
    [][\A u \in Users : BroadcastFrom(u) =>
         /\ AttemptsAll(attempted', users_file)
         /\ out' = Append(DeliveredBy(attempted', update'.text),
                          IF Len(users_file) >= 1
                          THEN Msg(u, "broadcast_done", <<>>,
                                   Len(users_file) - Failures(attempted'))
                          ELSE Say(u, "no_users"))
         /\ admin_conv'[u] = NoConv
      ]_vars

\* the first of three deliveries failed, the other two were made
C8_Witness ==
    /\ Len(attempted) = 3
    /\ attempted[1].raised /\ ~attempted[2].raised /\ ~attempted[3].raised
    /\ Len(out) = 3
    /\ out[1].to = attempted[2].to /\ out[2].to = attempted[3].to
    /\ out[3].kind = "broadcast_done" /\ out[3].n = 2
    /\ admin_conv[update.from] = NoConv

\* C9: /admin from a user outside ADMIN_IDS sends the permission-denied
\* reply and nothing else, and changes no conversation state, setting,
\* registry entry, message template or spreadsheet row.
C9_AdminDenied ==
    [][\A u \in Users \ ADMIN_IDS :
         (update'.from = u /\ update'.kind = "command"
             /\ update'.name = "admin") =>
           /\ out' = <<Say(u, "access_denied")>>
           /\ UNCHANGED <<reg_conv, admin_conv, user_data, settings_vars,
                          users_file, message_file, sheets>>
      ]_vars

\* the guest was refused in the middle of a registration, while an
\* administrator was editing the event
C9_Witness ==
    /\ update.from = Guest /\ update.kind = "command"
    /\ update.name = "admin"
    /\ out = <<Say(Guest, "access_denied")>>
    /\ reg_conv[Guest] = "USERNAME"
    /\ admin_conv[Admin] = "ADMIN_TIME"

\* C10: the settings, the message template and the start of a broadcast
\* change only by an update of a user in ADMIN_IDS, and a user outside
\* ADMIN_IDS never enters an admin state.
C10_AdminOnly ==
    [][/\ ( \/ <<settings_vars, message_file>>' # <<settings_vars, message_file>>
            \/ update'.adm = "ADMIN_BROADCAST" /\ update'.kind = "text"
                  /\ update'.reg = NoConv ) =>
              update'.from \in ADMIN_IDS
       /\ \A u \in Users \ ADMIN_IDS : admin_conv'[u] = NoConv
      ]_vars

\* the states of the edit-event-info conversation
EditStates == {"ADMIN_DATE", "ADMIN_TIME", "ADMIN_LOCATION"}

\* the update now handled is the location that completes the edit-event-info
\* conversation of u
CompletesEdit(u) ==
    TextFrom(u) /\ reg_conv[u] = NoConv /\ admin_conv[u] = "ADMIN_LOCATION"

\* the three values the settings file holds
Held(file) == json_load(file)

\* the values u entered in the conversation in progress, as a set
EnteredBy(u) == {entered[u][i] : i \in 1..Len(entered[u])}

\* C11: the settings file is written only by the step that completes an
\* edit-event-info conversation, and then holds exactly the date and the time
\* entered in that conversation and the location that completes it, whatever
\* the other administrators enter in their own conversations meanwhile.
C11_EditWritesOwn ==
    [][/\ \A u \in Users : CompletesEdit(u) =>
             /\ settings_file'.exists /\ JsonParses(settings_file')
             /\ Held(settings_file') =
                   [event_date |-> entered[u][1].value,
                    event_time |-> entered[u][2].value,
                    event_location |-> update'.text]
       /\ (Running /\ settings_file' # settings_file) =>
             \E u \in Users : CompletesEdit(u)
      ]_vars

\* C12: when the settings file is written, no value it holds is a value of a
\* conversation that was ended by /cancel, unless the writing conversation
\* entered that value itself.
C12_CancelledNeverWritten ==
    [][\A u \in Users : CompletesEdit(u) =>
         \A f \in dropped \ EnteredBy(u) :
            Held(settings_file')[f.field] # f.value
      ]_vars

\* C13: in every admin state, /cancel from the user ends the user's admin
\* conversation, whatever registration conversation the same user has in
\* progress.
C13_AdminCancelEnds ==
    [][\A u \in Users :
         (admin_conv[u] \in AdminStates /\ update'.from = u
             /\ update'.kind = "command" /\ update'.name = "cancel") =>
           admin_conv'[u] = NoConv
      ]_vars

\* the three globals after the step
Loaded ==
    [event_date |-> event_date', event_time |-> event_time',
     event_location |-> event_location']

\* C14: the settings a new process loads are, key by key, the value last
\* saved (or left on the disk) when the file has the key and the default when
\* it has not, and the file is left as it is; when there is no file, the file
\* is created and the values loaded are the defaults.  A save writes the
\* three values in memory, so a save followed by a load in a new process
\* yields the same three values.
C14_SettingsRoundTrip ==
    [][/\ update'.kind = "startup" =>
             IF settings_file.exists
             THEN /\ settings_file' = settings_file
                  /\ \A k \in SettingsKeys :
                        Loaded[k] = IF k \in DOMAIN persisted THEN persisted[k]
                                    ELSE default_settings[k]
             ELSE /\ settings_file'.exists
                  /\ Loaded = default_settings
                  /\ persisted' = default_settings
       /\ \A u \in Users : CompletesEdit(u) =>
             /\ persisted' = Loaded
             /\ Loaded = [event_date |-> event_date, event_time |-> event_time,
                          event_location |-> update'.text]
      ]_vars

\* a process was started on the file a save had written with a quote, a
\* backslash and a line break in the location
C14_Witness ==
    /\ update.kind = "startup"
    /\ persisted = [event_date |-> TxtDateLeap, event_time |-> TxtTimeLate,
                    event_location |-> TxtLocationQuoted]
    /\ event_location = TxtLocationQuoted
    /\ event_date = TxtDateLeap

\* the day and the month a 'day.month' text names
DayOf(date_str) == int(Split(date_str, ".")[1])

MonthOf(date_str) == int(Split(date_str, ".")[2])

\* the text has the form 'day.month', two whole numbers
NamesDayMonth(date_str) ==
    /\ Len(Split(date_str, ".")) = 2
    /\ \A i \in 1..2 : IsIntLiteral(Split(date_str, ".")[i])

\* a date of the calendar
CalendarDate(year, month, day) ==
    /\ year \in 1..9999
    /\ month \in 1..12
    /\ day >= 1
    /\ day <= (CASE month \in {1, 3, 5, 7, 8, 10, 12} -> 31
                 [] month \in {4, 6, 9, 11} -> 30
                 [] OTHER -> IF year % 400 = 0 \/ (year % 4 = 0 /\ year % 100 # 0)
                             THEN 29 ELSE 28)

\* the weekday of a date by Zeller's congruence, 0 for Monday
ZellerWeekday(year, month, day) ==
    LET m == IF month < 3 THEN month + 12 ELSE month
        y == IF month < 3 THEN year - 1 ELSE year
        h == (day + ((13 * (m + 1)) \div 5) + (y % 100) + ((y % 100) \div 4)
              + ((y \div 100) \div 4) + 5 * (y \div 100)) % 7
    IN  (h + 5) % 7

DayNames ==
    <<"ponedilok", "vivtorok", "seredu", "chetver", "p'yatnytsyu", "subotu",
      "nedilyu">>

DayName(year, month, day) == DayNames[ZellerWeekday(year, month, day) + 1]

\* midnight of the date is before the clock reading
IsPast(year, month, day, now) ==
    \/ <<year, month>> = <<now.year, now.month>> /\ day < now.day
    \/ year = now.year /\ month < now.month
    \/ year < now.year
    \/ <<year, month, day>> = <<now.year, now.month, now.day>> /\ now.ms > 0

\* the update now handled shows the invitation
InvitationShown ==
    \/ update'.kind = "command" /\ update'.name = "starts"
    \/ update'.kind = "button" /\ update'.name = "back"

\* the weekday named in the invitation just sent
WeekdayShown == out'[Len(out')].text[1]

\* C15: for an event date of the form 'day.month', the weekday in the
\* invitation is the 'unknown day' text when day and month are no date of
\* the current year, or when that date is past and day and month are no date
\* of the next year; otherwise it is the weekday of the date in the current
\* year if that date is not before now, and in the next year if it is.
C15_Weekday ==
    [][(InvitationShown /\ NamesDayMonth(event_date)) =>
         LET day == DayOf(event_date)
             month == MonthOf(event_date)
             year == clock'.year
         IN  IF ~CalendarDate(year, month, day)
             THEN WeekdayShown = unknown_day
             ELSE IF ~IsPast(year, month, day, clock')
             THEN WeekdayShown = DayName(year, month, day)
             ELSE IF ~CalendarDate(year + 1, month, day)
             THEN WeekdayShown = unknown_day
             ELSE WeekdayShown = DayName(year + 1, month, day)
      ]_vars

\* a fresh command: /start or /starts
FreshCommand(upd, u) ==
    upd.from = u /\ upd.kind = "command" /\ upd.name \in {"start", "starts"}

\* C16: /start or /starts from a user in a registration state ends the
\* registration conversation, and the text message the user sends next is
\* not taken as an answer of the registration form.
C16_CommandResets ==
    [][\A u \in Users :
         /\ (reg_conv[u] \in RegStates /\ FreshCommand(update', u)) =>
               reg_conv'[u] = NoConv
         /\ (FreshCommand(update, u) /\ update.reg \in RegStates /\ TextFrom(u)) =>
               /\ user_data'[u] = user_data[u]
               /\ reg_conv'[u] = NoConv
               /\ store_calls' = <<>>
      ]_vars

\* C17: when a call of the tabular store raises inside store_registration,
\* whichever call it is, the conversation that completes still ends in END
\* and the user is sent the registration confirmation and the links message
\* and nothing else.
C17_StoreFailureCaught ==
    [][\A u \in Users : Completes(u) =>
         /\ Len(store_calls') = 1
         /\ store_calls'[1].raised # "none" =>
               /\ reg_conv'[u] = NoConv
               /\ out' = <<Say(u, "registration_thanks"), Say(u, "social_links")>>
      ]_vars

\* appending the header row raised: the partition was created and is empty,
\* the user was thanked
C17_Witness ==
    /\ update.reg = "SOURCE"
    /\ Len(store_calls) = 1
    /\ store_calls[1].raised = "header"
    /\ reg_conv[Guest] = NoConv
    /\ out = <<Say(Guest, "registration_thanks"), Say(Guest, "social_links")>>
    /\ sheets[event_date] = <<>>

\* C18: the registry holds an identifier twice only if two add_user
\* executions for it overlapped between the read and the append; without
\* such an overlap every identifier that issued /start is in the registry
\* once and nothing else is.
C18_DuplicateOnlyByRace ==
    /\ \A u \in Users : TimesRegistered(u) >= 2 => u \in raced
    /\ \A u \in issued \ raced : TimesRegistered(u) = 1
    /\ Registered = issued

\* two executions for the guest overlapped and the registry holds the guest
\* twice, after another identifier that was added without overlap
C18_Witness ==
    /\ TimesRegistered(Guest) = 2
    /\ Guest \in raced
    /\ TimesRegistered(Admin) = 1
    /\ Admin \notin raced
    /\ \A w \in Workers : ~adding[w].busy

\* C19 (the claim as stated): in every state where a user has no registration
\* conversation in progress, the user's accumulated registration fields are
\* empty.
C19_FieldsDestroyed ==
    \A u \in Users : reg_conv[u] = NoConv => DOMAIN user_data[u] = {}

\* the three globals the handlers use
InMemory ==
    [event_date |-> event_date, event_time |-> event_time,
     event_location |-> event_location]

\* C20: while the process runs and no edit-event-info conversation is in
\* progress, the event date, time and location in memory are those a new
\* process would load from the settings file.
C20_MemoryIsPersisted ==
    (Running /\ \A u \in Users : admin_conv[u] \notin EditStates) =>
       InMemory = load_settings(settings_file)

\* C21 (the claim as stated): in every state, also after a call to the
\* tabular store inside store_registration has failed, every partition that
\* exists has the header row as its first row, and every registration record
\* of the partition comes after it.
C21_HeaderFirst ==
    \A t \in DOMAIN sheets :
       /\ Len(sheets[t]) >= 1
       /\ sheets[t][1] = HeaderRow
       /\ \A i \in 2..Len(sheets[t]) : sheets[t][i] # HeaderRow

\* the value the claim gives key k after a start: the persisted one when the
\* key is present, the default otherwise
ValueAtStartup(k) ==
    IF k \in DOMAIN persisted THEN persisted[k] ELSE default_settings[k]

\* C22 (the claim as stated): right after load_settings has returned at a
\* start of the process, each of event_date, event_time and event_location
\* holds a value, also when the settings file exists and cannot be parsed,
\* and it is the persisted value or the default when the file can be parsed;
\* and every /starts command and every press of the 'back' button is answered
\* with the invitation.
C22_SettingsHeldAfterLoad ==
    /\ [](update.kind = "startup" =>
            \A k \in SettingsKeys :
               /\ InMemory[k] # Unbound
               /\ JsonParses(settings_file) => InMemory[k] = ValueAtStartup(k))
    /\ [][InvitationShown =>
            /\ out' # <<>>
            /\ out'[Len(out')].kind = "invitation"
         ]_vars

====
